---- MODULE Spec2Model ----
(***************************************************************************)
(* Model of the public routes of the moltbot sandbox worker:               *)
(*   GET /api/status, ALL /reset-factory-defaults (both revisions of the   *)
(*   handler kept in the repository: the wipe-first one and the kill-first *)
(*   one), running against a sandbox that owns the processes and the       *)
(*   storage.  Every await of a handler is one step, so that requests may  *)
(*   interleave with each other and with the sandbox's own processes.      *)
(***************************************************************************)
EXTENDS Integers, Sequences, FiniteSets, TLC

\* ------------------------------------------------------------------ bounds
MaxReqs == 1
MaxProcs == 2
TickMs == 2500

\* --------------------------------------------------------- program constants
ProbePort == 18789
ProbeTimeout == 5000
HttpOk == 200
HttpError == 500

Reqs == 1..MaxReqs

\* The request slots there are: one more than are served at a time, for the
\* specification in which the reset route gets one more concurrent request.
Slots == 1..(MaxReqs + 1)
Pids == 1..MaxProcs

\* ------------------------------------------------------------------ storage
\* A path is the sequence of its components: /root/.openclaw is <<"root", ".openclaw">>.
LocalPaths == << <<"root", ".openclaw">>, <<"root", ".clawdbot">> >>

BackupPaths ==
    << <<"data", "moltbot", "openclaw">>,
       <<"data", "moltbot", "clawdbot">>,
       <<"data", "moltbot", ".last-sync">>,
       <<"data", "moltbot", "openclaw.json">>,
       <<"data", "moltbot", "clawdbot.json">> >>

\* Mutant: the second local directory is forgotten.
RmLocalCmd_Forgets == [prog |-> "rm", flags |-> "-rf", args |-> << <<"root", ".openclaw">> >>]

\* Mutant: the operands are missing ones' errors again (-r without -f).
RmLocalCmd_NoForce == [prog |-> "rm", flags |-> "-r", args |-> LocalPaths]

\* 'rm -rf /root/.openclaw /root/.clawdbot'
RmLocalCmd == [prog |-> "rm", flags |-> "-rf", args |-> LocalPaths]

\* Mutant: the last read removes what it was to list.
LsLocalCmd_Removes == [prog |-> "rm", flags |-> "-rf", args |-> << <<"root", ".openclaw">> >>]

\* Mutant: the last-sync marker is forgotten.
RmBackupCmd_Forgets ==
    [prog |-> "rm", flags |-> "-rf",
     args |-> << <<"data", "moltbot", "openclaw">>, <<"data", "moltbot", "clawdbot">>,
                 <<"data", "moltbot", "openclaw.json">>, <<"data", "moltbot", "clawdbot.json">> >>]

\* Mutant: the whole mount is removed instead of the named entries.
RmBackupCmd_WholeMount ==
    [prog |-> "rm", flags |-> "-rf", args |-> << <<"data", "moltbot">> >>]

\* 'rm -rf /data/moltbot/openclaw ... /data/moltbot/clawdbot.json'
RmBackupCmd == [prog |-> "rm", flags |-> "-rf", args |-> BackupPaths]

\* The gateway's launch command, by which a process is recognised as the gateway.
GatewayCmd == [prog |-> "openclaw", flags |-> "gateway", args |-> <<>>]

Range(s) == {s[i] : i \in DOMAIN s}

IsPrefix(a, p) == Len(a) <= Len(p) /\ SubSeq(p, 1, Len(a)) = a

\* rm's flags: -r removes what lies below an operand, -f ignores missing operands.
Recursive(flags) == flags \in {"-rf", "-r"}
Force(flags) == flags \in {"-rf", "-f"}

\* The paths an rm operand covers: the operand itself and, with -r, what lies below it.
Covered(flags, args, p) ==
    \E a \in Range(args) : IF Recursive(flags) THEN IsPrefix(a, p) ELSE a = p

\* What 'rm <flags> <args>' leaves of the storage.
RmEffect(flags, args, store) == {p \in store : ~Covered(flags, args, p)}

\* Exit code of rm: -f ignores operands that do not exist.
RmExit(flags, args, store) ==
    IF Force(flags) \/ Range(args) \subseteq store THEN 0 ELSE 1

\* The files of the model's file system.  The first group is what the two rm
\* commands name, with something below each directory; the second is everything else.
DeclaredTree ==
    { <<"root", ".openclaw">>, <<"root", ".openclaw", "openclaw.json">>,
      <<"root", ".clawdbot">>,
      <<"data", "moltbot", "openclaw">>, <<"data", "moltbot", "openclaw", "openclaw.json">>,
      <<"data", "moltbot", "clawdbot">>,
      <<"data", "moltbot", ".last-sync">>,
      <<"data", "moltbot", "openclaw.json">>,
      <<"data", "moltbot", "clawdbot.json">> }

OtherPaths ==
    { <<"root">>, <<"root", ".bashrc">>, <<"root", ".openclaw-old">>,
      <<"data">>, <<"data", "moltbot">>, <<"data", "moltbot", "skills">> }

LocalTree == {p \in DeclaredTree : p[1] = "root"}
BackupTree == {p \in DeclaredTree : p[1] = "data"}

\* Storage the sandbox can start with: each target either initialised or not.
InitStorages ==
    {OtherPaths \cup l \cup b : l \in {{}, LocalTree}, b \in {{}, BackupTree}}

\* ------------------------------------------------------------------- errors
\* What a sandbox call throws: an Error with a message, or some other value.
Errors ==
    { [isError |-> TRUE, message |-> "sandbox unreachable"],
      [isError |-> FALSE, message |-> "thrown value"] }

NoError == [isError |-> FALSE, message |-> ""]

\* What startProcess and kill throw: the sandbox client rejects with an Error.
Rejections == {e \in Errors : e.isError}

\* err instanceof Error ? err.message : 'Unknown error'
ErrMessage(e) == IF e.isError THEN e.message ELSE "Unknown error"

NoResp == [code |-> 0, body |-> [none |-> TRUE]]

\* ------------------------------------------------------------- environment
\* The values c.env.MOLTBOT_GATEWAY_TOKEN can have: unset, or the secret.
NoToken == ""
Secret == "tokA"
Tokens == {NoToken, Secret}

\* The environment of the sandbox's processes as the image sets it.
BaseEnv == { <<"HOME", "/root">> }

VARIABLES
    storage,    \* the set of paths that exist in the sandbox
    procs,      \* the sandbox's live processes: pid -> [cmd, ports]
    pc,         \* where each request is in its handler
    kind,       \* which handler a request runs
    resp,       \* the response a request has produced
    found,      \* status handler: the pid findExistingMoltbotProcess returned (0: none)
    pending,    \* killAllMoltbotProcesses: the listed gateway pids not yet killed
    killErr,    \* killAllMoltbotProcesses: the failure recorded so far
    calls,      \* instrumentation: the sandbox calls each request has issued, in order
    lastRun,    \* instrumentation: the exit code of the last rm that ran to its end
                \* and whether it removed anything
    prior,      \* instrumentation: "failed" when the last answered reset had a failure
    cenv,       \* diagnose handler: c.env.MOLTBOT_GATEWAY_TOKEN of the request
    handle,     \* diagnose handler: the pid of the process it has started (0: none)
    outs,       \* diagnose handler: the stdout of the reads done so far, in order
    penv,       \* the environment the sandbox gives to the processes it starts
    waited,     \* instrumentation: the time (ms) each request's port probe has waited
    met,        \* instrumentation: whether each request ran while another was under way
    e2e         \* instrumentation: how far the end-to-end sequence (reset, status,
                \* gateway start, status) has been observed; "off" when not observed

vars ==
    <<storage, procs, pc, kind, resp, found, pending, killErr, calls, lastRun, prior,
      cenv, handle, outs, penv, waited, met, e2e>>

diagVars == <<cenv, handle, outs, penv>>

obsVars == <<waited, met, e2e>>


\* --------------------------------------------------------------- the sandbox
Min(S) == CHOOSE x \in S : \A y \in S : x <= y

GatewayPids(ps) == {p \in DOMAIN ps : ps[p].cmd = GatewayCmd}

\* The ids a new process can get: the sandbox never gives the id of a process
\* that a request still holds a handle of to another process.
FreePids ==
    Pids \ (DOMAIN procs \cup UNION {pending[r] : r \in Slots} \cup {found[r] : r \in Slots}
                \cup {handle[r] : r \in Slots})

Without(ps, p) == [q \in DOMAIN ps \ {p} |-> ps[q]]

\* sandbox.startProcess(cmd), when it succeeds: a new process, which then runs on its own.
Spawn(ps, cmd) == ps @@ (Min(FreePids) :> [cmd |-> cmd, ports |-> {}])

NoRun == [exit |-> 0 - 1, removed |-> FALSE]

Stage(a, r, p) == [at |-> a, req |-> r, pid |-> p]
E2EOff == Stage("off", 0, 0)
E2EIdle == Stage("idle", 0, 0)

\* The processes the sandbox can start with: no gateway, one, or duplicates.
InitProcs == {[p \in 1..n |-> [cmd |-> GatewayCmd, ports |-> {}]] : n \in 0..MaxProcs}

InitState ==
    /\ storage \in InitStorages
    /\ procs \in InitProcs
    /\ pc = [r \in Slots |-> "idle"]
    /\ kind = [r \in Slots |-> "none"]
    /\ resp = [r \in Slots |-> NoResp]
    /\ found = [r \in Slots |-> 0]
    /\ pending = [r \in Slots |-> {}]
    /\ killErr = [r \in Slots |-> NoError]
    /\ calls = [r \in Slots |-> << >>]
    /\ lastRun = NoRun
    /\ prior = "none"
    /\ cenv = [r \in Slots |-> NoToken]
    /\ handle = [r \in Slots |-> 0]
    /\ outs = [r \in Slots |-> << >>]
    /\ penv = BaseEnv
    /\ waited = [r \in Slots |-> 0]
    /\ met = [r \in Slots |-> FALSE]

Init == InitState /\ e2e = E2EOff

\* The same, with the end-to-end sequence observed.
InitE2E == InitState /\ e2e = E2EIdle

reqVars == <<pc, kind, resp, found, pending, killErr, calls, prior>>

\* A request no sandbox call of which has failed.
NoFailure(r) == killErr[r] = NoError /\ \A i \in DOMAIN calls[r] : calls[r][i].ok

\* Process p accepts TCP connections on the port.
PortOpen(p, port) == p \in DOMAIN procs /\ port \in procs[p].ports

\* ---- instrumentation: the end-to-end sequence
\* The stage reached, once the answer of the request it waits for is in:
\*   "resetting": a reset request is under way, no gateway started since it began;
\*   "clean":     it has answered ok without a failure;
\*   "asked":     a status request begun after that is under way;
\*   "absent":    it has answered not_running;
\*   "started":   one gateway process (pid) has been started since;
\*   "probing":   a status request begun when its port was open is under way.
Settled ==
    IF e2e.at \in {"resetting", "asked", "probing"} /\ pc[e2e.req] = "done"
        THEN CASE e2e.at = "resetting" /\ NoFailure(e2e.req)
                        /\ resp[e2e.req].body.status = "ok" -> Stage("clean", 0, 0)
               [] e2e.at = "asked" /\ NoFailure(e2e.req)
                        /\ resp[e2e.req].body.status = "not_running" -> Stage("absent", 0, 0)
               [] OTHER -> E2EIdle
        ELSE e2e

\* A request begins on slot r with handler k.
E2EBegin(r, k) ==
    LET s == Settled IN
    CASE s.at = "off" -> s
      [] s.at # "off" /\ k \in {"resetWipeFirst", "resetKillFirst"} -> Stage("resetting", r, 0)
      [] k = "status" /\ s.at = "clean" -> Stage("asked", r, 0)
      [] k = "status" /\ s.at = "started" /\ PortOpen(s.pid, ProbePort) -> Stage("probing", r, s.pid)
      [] OTHER -> s

\* A gateway process p is started.
E2EStart(p) ==
    LET s == Settled IN
    CASE s.at = "off" -> s
      [] s.at = "absent" -> Stage("started", 0, p)
      [] OTHER -> E2EIdle

\* A gateway process is started (by a request outside these routes).
GatewayStart ==
    /\ FreePids # {}
    /\ procs' = Spawn(procs, GatewayCmd)
    /\ e2e' = E2EStart(Min(FreePids))
    /\ UNCHANGED <<waited, met, diagVars, storage, lastRun, reqVars>>

\* A gateway process starts accepting TCP connections on its port.
GatewayListen(p) ==
    /\ p \in GatewayPids(procs)
    /\ ProbePort \notin procs[p].ports
    /\ procs' = [procs EXCEPT ![p].ports = @ \cup {ProbePort}]
    /\ UNCHANGED <<obsVars, diagVars, storage, lastRun, reqVars>>

\* A gateway process ends by itself (it crashes, or it exits).
GatewayExit(p) ==
    /\ p \in GatewayPids(procs)
    /\ procs' = Without(procs, p)
    /\ UNCHANGED <<obsVars, diagVars, storage, lastRun, reqVars>>

\* A started rm process runs to its end.
ProcessRun(p) ==
    /\ p \in DOMAIN procs
    /\ procs[p].cmd.prog = "rm"
    /\ storage' = RmEffect(procs[p].cmd.flags, procs[p].cmd.args, storage)
    /\ lastRun' = [exit |-> RmExit(procs[p].cmd.flags, procs[p].cmd.args, storage),
                   removed |-> storage' # storage]
    /\ procs' = Without(procs, p)
    /\ UNCHANGED <<obsVars, diagVars, reqVars>>

\* ------------------------------------------------------------- the requests
Handlers == {"status", "resetWipeFirst", "resetKillFirst", "diagnose"}

Entry(k) ==
    CASE k = "status" -> "status_find"
      [] k = "resetWipeFirst" -> "wipe_local"
      [] k = "resetKillFirst" -> "kill_list"
      [] k = "diagnose" -> "diag_start"

\* One sandbox call as the instrumentation records it: what was called, on what
\* (a wipe target 1 or 2, a pid), whether it returned, and what it threw if not.
Call(op, what, err) == [op |-> op, what |-> what, ok |-> err = NoError, err |-> err]

Logged(r, c) == calls' = [calls EXCEPT ![r] = Append(@, c)]

\* c.json(body, code): the handler returns its response.
Respond(r, code, body) ==
    /\ pc' = [pc EXCEPT ![r] = "done"]
    /\ resp' = [resp EXCEPT ![r] = [code |-> code, body |-> body]]

\* What an answered request leaves to remember: whether the last reset had a failure.
Outcome(r) ==
    IF pc[r] # "done" \/ kind[r] \notin {"resetWipeFirst", "resetKillFirst"} THEN prior
    ELSE IF NoFailure(r) THEN "none" ELSE "failed"

\* A request arrives and is routed to its handler.  It takes a slot that is
\* free: one never used, or one whose response has been sent (the slots are
\* interchangeable, so the first never-used one is taken).
Begin(r, k) ==
    /\ pc[r] \in {"idle", "done"}
    /\ \A q \in Slots : q < r => pc[q] # "idle"
    /\ pc' = [pc EXCEPT ![r] = Entry(k)]
    /\ kind' = [kind EXCEPT ![r] = k]
    /\ resp' = [resp EXCEPT ![r] = NoResp]
    /\ found' = [found EXCEPT ![r] = 0]
    /\ pending' = [pending EXCEPT ![r] = {}]
    /\ killErr' = [killErr EXCEPT ![r] = NoError]
    /\ calls' = [calls EXCEPT ![r] = << >>]
    /\ prior' = Outcome(r)
    /\ \E t \in (IF k = "diagnose" THEN Tokens ELSE {NoToken}) :
            cenv' = [cenv EXCEPT ![r] = t]
    /\ handle' = [handle EXCEPT ![r] = 0]
    /\ outs' = [outs EXCEPT ![r] = << >>]
    /\ waited' = [waited EXCEPT ![r] = 0]
    /\ met' = [q \in Slots |->
                IF q = r THEN \E x \in Slots \ {r} : pc[x] \notin {"idle", "done"}
                ELSE met[q] \/ pc[q] \notin {"idle", "done"}]
    /\ e2e' = E2EBegin(r, k)
    /\ UNCHANGED <<storage, procs, lastRun, penv>>

\* ------------------------------------------------------- GET /api/status
\* findExistingMoltbotProcess, once the listing has succeeded: the process whose
\* command is the gateway's, or none (0).  Of duplicates it picks the first listed.
FindExisting(ps) == IF GatewayPids(ps) = {} THEN 0 ELSE Min(GatewayPids(ps))

\* Mutant: the absent process is probed like a present one.
StatusAbsent_Probes(r) ==
    /\ pc' = [pc EXCEPT ![r] = "status_probe"]
    /\ UNCHANGED <<resp, found>>

\* if (!process) return c.json({ ok: false, status: 'not_running' })
StatusAbsent(r) ==
    /\ Respond(r, HttpOk, [ok |-> FALSE, status |-> "not_running"])
    /\ UNCHANGED found

\* const process = ...: the handler goes on to the probe.
StatusPresent(r, p) ==
    /\ pc' = [pc EXCEPT ![r] = "status_probe"]
    /\ found' = [found EXCEPT ![r] = p]
    /\ UNCHANGED resp

\* Mutant: the catch leaves the failure's message out.
StatusCatch_NoMessage(r, e) ==
    /\ Respond(r, HttpOk, [ok |-> FALSE, status |-> "error"])
    /\ UNCHANGED found

\* Mutant: a failed listing is taken for "no process".
StatusCatch_Swallows(r, e) ==
    /\ Respond(r, HttpOk, [ok |-> FALSE, status |-> "not_running"])
    /\ UNCHANGED found

\* the outer catch (err): { ok: false, status: 'error', error: ... }
StatusCatch(r, e) ==
    /\ Respond(r, HttpOk, [ok |-> FALSE, status |-> "error", error |-> ErrMessage(e)])
    /\ UNCHANGED found

\* How a call of findExistingMoltbotProcess(sandbox) can end: the listing fails
\* and the failure is thrown to the caller, or the listing is searched.
FindOutcomes(ps) ==
    {[threw |-> TRUE, err |-> e, proc |-> 0] : e \in Errors}
        \cup {[threw |-> FALSE, err |-> NoError, proc |-> FindExisting(ps)]}

\* Mutant: the lookup starts a gateway process and returns it.
StatusFind_Starts(r) ==
    /\ pc[r] = "status_find"
    /\ FreePids # {}
    /\ procs' = Spawn(procs, GatewayCmd)
    /\ Logged(r, Call("listProcesses", 0, NoError))
    /\ StatusPresent(r, Min(FreePids))
    /\ UNCHANGED <<obsVars, diagVars, storage, lastRun, prior, kind, pending, killErr>>

\* await findExistingMoltbotProcess(sandbox), and the branch on its result.
StatusFind(r) ==
    /\ pc[r] = "status_find"
    /\ \E o \in FindOutcomes(procs) :
        /\ Logged(r, Call("listProcesses", 0, o.err))
        /\ IF o.threw THEN StatusCatch(r, o.err)
           ELSE IF o.proc = 0 THEN StatusAbsent(r)
           ELSE StatusPresent(r, o.proc)
    /\ UNCHANGED <<obsVars, diagVars, storage, procs, lastRun, prior, kind, pending, killErr>>

\* process.waitForPort(18789, { mode: 'tcp', timeout: 5000 }) resolves when the
\* process accepts connections on the port within the timeout, and throws otherwise.

\* Mutant: the process id is left out.
StatusRunning_NoId(r) == Respond(r, HttpOk, [ok |-> TRUE, status |-> "running"])

\* return c.json({ ok: true, status: 'running', processId: process.id })
StatusRunning(r) ==
    Respond(r, HttpOk, [ok |-> TRUE, status |-> "running", processId |-> found[r]])

\* Mutant: there is no inner try, the probe's failure reaches the outer catch.
StatusProbeCatch_Propagates(r, e) ==
    Respond(r, HttpOk, [ok |-> FALSE, status |-> "error", error |-> ErrMessage(e)])

\* the inner catch: { ok: false, status: 'not_responding', processId: process.id }
StatusProbeCatch(r, e) ==
    Respond(r, HttpOk, [ok |-> FALSE, status |-> "not_responding", processId |-> found[r]])

\* Mutant: the probe is given no timeout.
ProbeOpts_NoTimeout == [mode |-> "tcp", timeout |-> 0]

\* { mode: 'tcp', timeout: 5000 }
ProbeOpts == [mode |-> "tcp", timeout |-> ProbeTimeout]

\* As far as the model follows a probe that waits.
Horizon == 2 * ProbeTimeout

\* The time by which waitForPort gives up: the timeout it was given, never without one.
Deadline(opts) == IF opts.timeout > 0 THEN opts.timeout ELSE Horizon + TickMs

Probing == {r \in Slots : pc[r] = "status_probe"}

\* Time passes while probes wait.  A probe does not wait beyond its deadline:
\* by then it has resolved or it has thrown.
Tick ==
    /\ Probing # {}
    /\ \A r \in Probing : waited[r] + TickMs <= Deadline(ProbeOpts) /\ waited[r] < Horizon
    /\ waited' = [r \in Slots |-> IF r \in Probing THEN waited[r] + TickMs ELSE waited[r]]
    /\ UNCHANGED <<met, e2e, diagVars, storage, procs, lastRun, reqVars>>

\* await process.waitForPort(...), inside the inner try.
StatusProbe(r) ==
    /\ pc[r] = "status_probe"
    /\ \/ /\ PortOpen(found[r], ProbePort)
          /\ Logged(r, Call("waitForPort", found[r], NoError))
          /\ StatusRunning(r)
       \/ \E e \in Errors :
            /\ Logged(r, Call("waitForPort", found[r], e))
            /\ StatusProbeCatch(r, e)
    /\ UNCHANGED <<obsVars, diagVars, storage, procs, lastRun, prior, kind, found, pending, killErr>>

\* ------------------------------------------- ALL /reset-factory-defaults
ResetOkBody ==
    [status |-> "ok",
     message |-> "Factory reset initiated. Gateway will restart and onboard freshly on next request."]

\* return c.json({ status: 'ok', message: ... })
ResetRespondOk(r) == Respond(r, HttpOk, ResetOkBody)

\* the handler's catch (err): c.json({ status: 'error', message: ... }, 500)
ResetCatch(r, e) ==
    Respond(r, HttpError, [status |-> "error", message |-> ErrMessage(e)])

\* ---- the wipe-first handler
\* 1. try { await sandbox.startProcess('rm -rf /root/.openclaw /root/.clawdbot') }
\*    catch (e) { console.error(...) }
ResetWipeLocal(r) ==
    /\ pc[r] = "wipe_local"
    /\ kind[r] = "resetWipeFirst"
    /\ \/ /\ FreePids # {}
          /\ procs' = Spawn(procs, RmLocalCmd)
          /\ Logged(r, Call("startProcess", 1, NoError))
       \/ \E e \in Rejections :
            /\ Logged(r, Call("startProcess", 1, e))
            /\ UNCHANGED procs
    /\ pc' = [pc EXCEPT ![r] = "wipe_backup"]
    /\ UNCHANGED <<obsVars, diagVars, storage, lastRun, prior, kind, resp, found, pending, killErr>>

\* Mutant: the backup wipe has no try of its own, its failure ends the request.
ResetWipeBackup_Propagates(r) ==
    /\ pc[r] = "wipe_backup"
    /\ kind[r] = "resetWipeFirst"
    /\ \/ /\ FreePids # {}
          /\ procs' = Spawn(procs, RmBackupCmd)
          /\ Logged(r, Call("startProcess", 2, NoError))
          /\ pc' = [pc EXCEPT ![r] = "kill_list"]
          /\ UNCHANGED resp
       \/ \E e \in Rejections :
            /\ Logged(r, Call("startProcess", 2, e))
            /\ ResetCatch(r, e)
            /\ UNCHANGED procs
    /\ UNCHANGED <<obsVars, diagVars, storage, lastRun, prior, kind, found, pending, killErr>>

\* 2. try { await sandbox.startProcess('rm -rf /data/moltbot/openclaw ...') }
\*    catch (e) { console.error(...) }
ResetWipeBackup(r) ==
    /\ pc[r] = "wipe_backup"
    /\ kind[r] = "resetWipeFirst"
    /\ \/ /\ FreePids # {}
          /\ procs' = Spawn(procs, RmBackupCmd)
          /\ Logged(r, Call("startProcess", 2, NoError))
       \/ \E e \in Rejections :
            /\ Logged(r, Call("startProcess", 2, e))
            /\ UNCHANGED procs
    /\ pc' = [pc EXCEPT ![r] = "kill_list"]
    /\ UNCHANGED <<obsVars, diagVars, storage, lastRun, prior, kind, resp, found, pending, killErr>>

\* 3. await killAllMoltbotProcesses(sandbox) has returned: respond ok.
ResetKilled(r) == ResetRespondOk(r)

\* ---- the kill-first handler
\* 1. await killAllMoltbotProcesses(sandbox) has returned: go on to the wipes.
Reset0Killed(r) ==
    /\ pc' = [pc EXCEPT ![r] = "wipe_local"]
    /\ UNCHANGED resp

\* 2. await sandbox.startProcess('rm -rf /root/.openclaw /root/.clawdbot')
Reset0WipeLocal(r) ==
    /\ pc[r] = "wipe_local"
    /\ kind[r] = "resetKillFirst"
    /\ \/ /\ FreePids # {}
          /\ procs' = Spawn(procs, RmLocalCmd)
          /\ Logged(r, Call("startProcess", 1, NoError))
          /\ pc' = [pc EXCEPT ![r] = "wipe_backup"]
          /\ UNCHANGED resp
       \/ \E e \in Rejections :
            /\ Logged(r, Call("startProcess", 1, e))
            /\ ResetCatch(r, e)
            /\ UNCHANGED procs
    /\ UNCHANGED <<obsVars, diagVars, storage, lastRun, prior, kind, found, pending, killErr>>

\* 3. await sandbox.startProcess('rm -rf /data/moltbot/openclaw ...'), then respond ok.
Reset0WipeBackup(r) ==
    /\ pc[r] = "wipe_backup"
    /\ kind[r] = "resetKillFirst"
    /\ \/ /\ FreePids # {}
          /\ procs' = Spawn(procs, RmBackupCmd)
          /\ Logged(r, Call("startProcess", 2, NoError))
          /\ ResetRespondOk(r)
       \/ \E e \in Rejections :
            /\ Logged(r, Call("startProcess", 2, e))
            /\ ResetCatch(r, e)
            /\ UNCHANGED procs
    /\ UNCHANGED <<obsVars, diagVars, storage, lastRun, prior, kind, found, pending, killErr>>

\* ---- killAllMoltbotProcesses(sandbox), as either handler awaits it
\* What the awaiting handler does when the call returns.
KillReturns(r) ==
    IF kind[r] = "resetWipeFirst" THEN ResetKilled(r) ELSE Reset0Killed(r)

\* What the awaiting handler does when the call throws: in both, the handler's catch.
KillThrows(r, e) == ResetCatch(r, e)

\* The call has dealt with every listed process: it returns, or throws the
\* failure it kept.
KillAllEnd(r, err) ==
    IF err = NoError THEN KillReturns(r) ELSE KillThrows(r, err)

\* The call is issued: it lists the sandbox's processes and keeps those of the
\* gateway.  A listing that fails is the call's failure; with no gateway listed
\* the call returns at once.
KillAllList(r) ==
    /\ pc[r] = "kill_list"
    /\ Logged(r, Call("killAllMoltbotProcesses", 0, NoError))
    /\ \/ \E e \in Rejections :
            /\ killErr' = [killErr EXCEPT ![r] = e]
            /\ KillAllEnd(r, e)
            /\ UNCHANGED pending
       \/ /\ pending' = [pending EXCEPT ![r] = GatewayPids(procs)]
          /\ IF GatewayPids(procs) = {}
                THEN KillAllEnd(r, NoError)
                ELSE pc' = [pc EXCEPT ![r] = "kill_each"] /\ UNCHANGED resp
          /\ UNCHANGED killErr
    /\ UNCHANGED <<obsVars, diagVars, storage, procs, lastRun, prior, kind, found>>

\* It kills each listed process in turn; a kill that fails is kept for the
\* result and the remaining processes are still killed.  After the last one
\* the call ends.
KillAllKill(r) ==
    /\ pc[r] = "kill_each"
    /\ pending[r] # {}
    /\ LET p == Min(pending[r]) IN
        /\ pending' = [pending EXCEPT ![r] = @ \ {p}]
        /\ \/ /\ procs' = Without(procs, p)
              /\ UNCHANGED killErr
           \/ \E e \in Rejections :
                /\ killErr' = [killErr EXCEPT ![r] = IF @ = NoError THEN e ELSE @]
                /\ UNCHANGED procs
    /\ IF pending'[r] = {}
          THEN KillAllEnd(r, killErr'[r])
          ELSE UNCHANGED <<pc, resp>>
    /\ UNCHANGED <<obsVars, diagVars, storage, lastRun, prior, kind, found, calls>>

\* ------------------------------------------------------------ GET /diagnose
\* 'cat /root/.openclaw/openclaw.json', 'env', 'ls -la /data/moltbot',
\* 'ls -la /root/.openclaw': the four reads, in the handler's order.
CatConfigCmd ==
    [prog |-> "cat", flags |-> "", args |-> << <<"root", ".openclaw", "openclaw.json">> >>]
EnvCmd == [prog |-> "env", flags |-> "", args |-> << >>]
LsR2Cmd == [prog |-> "ls", flags |-> "-la", args |-> << <<"data", "moltbot">> >>]
LsLocalCmd == [prog |-> "ls", flags |-> "-la", args |-> << <<"root", ".openclaw">> >>]

DiagCmds == <<CatConfigCmd, EnvCmd, LsR2Cmd, LsLocalCmd>>

ReadProgs == {"cat", "env", "ls"}

\* What a reading command writes to its stdout, as a set of lines.  cat prints
\* the contents of a file that exists; env prints every variable with its
\* value; ls -la prints ".", ".." and the entries of a directory that exists.
\* For a missing operand nothing is written to stdout (the message goes to stderr).
Stdout(cmd, store, env) ==
    CASE cmd.prog = "cat" -> {<<"contents">> \o a : a \in Range(cmd.args) \cap store}
      [] cmd.prog = "env" -> env
      [] cmd.prog = "ls" ->
            UNION {{<<".">>, <<"..">>}
                        \cup {<<q[Len(q)]>> : q \in {x \in store : Len(x) = Len(a) + 1 /\ IsPrefix(a, x)}}
                   : a \in Range(cmd.args) \cap store}
      [] OTHER -> {}

Ended(ps, p) == p \in DOMAIN ps /\ "out" \in DOMAIN ps[p]

\* The sandbox forgets a process that has ended once its handle is given up.
Release(ps, p) == IF Ended(ps, p) THEN Without(ps, p) ELSE ps

\* A started reading process runs to its end: its output is kept for the
\* holder of its handle.
ReadRun(p) ==
    /\ p \in DOMAIN procs
    /\ procs[p].cmd.prog \in ReadProgs
    /\ ~Ended(procs, p)
    /\ procs' =
        IF \E r \in Slots : handle[r] = p
            THEN [procs EXCEPT ![p] = [cmd |-> @.cmd, ports |-> @.ports,
                                       out |-> Stdout(@.cmd, storage, penv)]]
            ELSE Without(procs, p)
    /\ UNCHANGED <<obsVars, diagVars, storage, lastRun, reqVars>>

\* The worker's secret is passed on to the environment of the sandbox's processes.
EnvExport(t) ==
    /\ t \in Tokens \ {NoToken}
    /\ penv = BaseEnv
    /\ penv' = BaseEnv \cup {<<"MOLTBOT_GATEWAY_TOKEN", t>>}
    /\ UNCHANGED <<obsVars, cenv, handle, outs, storage, procs, lastRun, reqVars>>

\* return c.json({ config, env, lsR2, lsLocal, envConfig: c.env.MOLTBOT_GATEWAY_TOKEN ? ... })
DiagnoseBody(o, t) ==
    [config |-> o[1], env |-> o[2], lsR2 |-> o[3], lsLocal |-> o[4],
     envConfig |-> IF t # NoToken THEN "Has TOKEN env" ELSE "No TOKEN env"]

DiagnoseRespond(r, o) == Respond(r, HttpOk, DiagnoseBody(o, cenv[r]))

\* Mutant: the catch throws the failure on, out of the handler.
DiagnoseCatch_Rethrows(r, e) == Respond(r, 0, [thrown |-> ErrMessage(e)])

\* catch (e) { return c.json({ error: ... }, 500) }
DiagnoseCatch(r, e) == Respond(r, HttpError, [error |-> ErrMessage(e)])

\* The read the handler is at: one more than the reads it has the output of.
ReadNo(r) == Len(outs[r]) + 1

\* const xProc = await sandbox.startProcess('<command>'), inside the handler's try.
DiagnoseStart(r) ==
    /\ pc[r] = "diag_start"
    /\ \/ /\ FreePids # {}
          /\ procs' = Spawn(procs, DiagCmds[ReadNo(r)])
          /\ handle' = [handle EXCEPT ![r] = Min(FreePids)]
          /\ Logged(r, Call("startProcess", 2 + ReadNo(r), NoError))
          /\ pc' = [pc EXCEPT ![r] = "diag_logs"]
          /\ UNCHANGED resp
       \/ \E e \in Errors :
            /\ Logged(r, Call("startProcess", 2 + ReadNo(r), e))
            /\ DiagnoseCatch(r, e)
            /\ UNCHANGED <<procs, handle>>
    /\ UNCHANGED <<obsVars, cenv, outs, penv, storage, lastRun, prior, kind, found, pending, killErr>>

\* const xLogs = await xProc.getLogs(): what the process has written so far
\* (nothing when it has not run yet); after the fourth, the response.
DiagnoseLogs(r) ==
    /\ pc[r] = "diag_logs"
    /\ procs' = Release(procs, handle[r])
    /\ handle' = [handle EXCEPT ![r] = 0]
    /\ \/ LET out == IF Ended(procs, handle[r]) THEN procs[handle[r]].out ELSE {}
              o == Append(outs[r], out) IN
            /\ Logged(r, Call("getLogs", 2 + ReadNo(r), NoError))
            /\ outs' = [outs EXCEPT ![r] = o]
            /\ IF Len(o) = Len(DiagCmds)
                  THEN DiagnoseRespond(r, o)
                  ELSE pc' = [pc EXCEPT ![r] = "diag_start"] /\ UNCHANGED resp
       \/ \E e \in Errors :
            /\ Logged(r, Call("getLogs", 2 + ReadNo(r), e))
            /\ DiagnoseCatch(r, e)
            /\ UNCHANGED outs
    /\ UNCHANGED <<obsVars, cenv, penv, storage, lastRun, prior, kind, found, pending, killErr>>

\* ------------------------------------------------------------ specification
\* What the sandbox does by itself: processes start, listen, end and run.
GatewayStep ==
    \/ GatewayStart
    \/ \E p \in Pids : GatewayListen(p)
    \/ \E p \in Pids : GatewayExit(p)

SandboxStep ==
    \/ GatewayStep
    \/ \E p \in Pids : ProcessRun(p)

StatusStep ==
    \/ \E r \in Reqs : Begin(r, "status")
    \/ \E r \in Reqs : StatusFind(r)
    \/ \E r \in Reqs : StatusProbe(r)

ResetStep ==
    \/ \E r \in Reqs : Begin(r, "resetWipeFirst")
    \/ \E r \in Reqs : Begin(r, "resetKillFirst")
    \/ \E r \in Reqs : ResetWipeLocal(r)
    \/ \E r \in Reqs : ResetWipeBackup(r)
    \/ \E r \in Reqs : Reset0WipeLocal(r)
    \/ \E r \in Reqs : Reset0WipeBackup(r)
    \/ \E r \in Reqs : KillAllList(r)
    \/ \E r \in Reqs : KillAllKill(r)

DiagnoseStep ==
    \/ \E r \in Reqs : Begin(r, "diagnose")
    \/ \E r \in Reqs : DiagnoseStart(r)
    \/ \E r \in Reqs : DiagnoseLogs(r)

\* What else goes on in the sandbox while a diagnosis is made.
ReadStep ==
    \/ \E p \in Pids : ReadRun(p)
    \/ \E t \in Tokens : EnvExport(t)

Next ==
    \/ SandboxStep
    \/ ReadStep
    \/ StatusStep
    \/ ResetStep
    \/ DiagnoseStep

\* Every route served.
Spec == Init /\ [][Next]_vars

\* The status route alone, over a sandbox in which gateways come and go.
SpecStatus == Init /\ [][GatewayStep \/ StatusStep]_vars

\* The status route with the time its probes wait.
SpecProbe == Init /\ [][GatewayStep \/ StatusStep \/ Tick]_vars

\* An awaited sandbox call resolves or rejects and the handler goes on.
FairSpecProbe ==
    /\ SpecProbe
    /\ \A r \in Reqs : WF_vars(StatusFind(r)) /\ WF_vars(StatusProbe(r))

\* The reset route alone (both handlers) over a sandbox in which nothing else
\* starts or ends a gateway: what a reset run and its rm processes do by themselves.
ResetNext ==
    \/ ResetStep
    \/ \E p \in Pids : ProcessRun(p)

SpecReset == Init /\ [][ResetNext]_vars

\* The reset route with one more request served at a time.
ResetPairStep ==
    \/ \E r \in Slots : Begin(r, "resetWipeFirst")
    \/ \E r \in Slots : Begin(r, "resetKillFirst")
    \/ \E r \in Slots : ResetWipeLocal(r)
    \/ \E r \in Slots : ResetWipeBackup(r)
    \/ \E r \in Slots : Reset0WipeLocal(r)
    \/ \E r \in Slots : Reset0WipeBackup(r)
    \/ \E r \in Slots : KillAllList(r)
    \/ \E r \in Slots : KillAllKill(r)

SpecResetPair == Init /\ [][ResetPairStep \/ (\E p \in Pids : ProcessRun(p))]_vars

\* The status and reset routes over a sandbox in which gateways come and go,
\* with the end-to-end sequence observed.
SpecE2E ==
    InitE2E /\ [][GatewayStep \/ (\E p \in Pids : ProcessRun(p)) \/ StatusStep \/ ResetStep]_vars

\* The diagnose route alone, over a sandbox whose reading processes run.
SpecDiagnose == Init /\ [][DiagnoseStep \/ ReadStep]_vars

\* A sandbox call that is awaited resolves or rejects, and the handler's
\* continuation then runs; a started process runs to its end.
FairSpecReset ==
    /\ SpecReset
    /\ \A r \in Reqs :
        WF_vars(ResetWipeLocal(r) \/ ResetWipeBackup(r) \/ Reset0WipeLocal(r)
                    \/ Reset0WipeBackup(r) \/ KillAllList(r) \/ KillAllKill(r))
    /\ \A p \in Pids : WF_vars(ProcessRun(p))

\* ------------------------------------------------------------ instrumentation
IsReset(r) == kind[r] \in {"resetWipeFirst", "resetKillFirst"}

\* The positions of a sandbox call in what request r has issued so far.
At(r, op, what) == {i \in DOMAIN calls[r] : calls[r][i].op = op /\ calls[r][i].what = what}

WipeLocalAt(r) == At(r, "startProcess", 1)
WipeBackupAt(r) == At(r, "startProcess", 2)
TerminateAt(r) == At(r, "killAllMoltbotProcesses", 0)

Failed(r, op, what) == \E i \in At(r, op, what) : ~calls[r][i].ok
Succeeded(r, op, what) == \E i \in At(r, op, what) : calls[r][i].ok

\* Which reset phases have failed: a wipe whose startProcess threw, a terminate that threw.
WipeLocalFailed(r) == Failed(r, "startProcess", 1)
WipeBackupFailed(r) == Failed(r, "startProcess", 2)
TerminateFailed(r) == TerminateAt(r) # {} /\ killErr[r] # NoError
TerminateSucceeded(r) ==
    /\ TerminateAt(r) # {}
    /\ killErr[r] = NoError
    /\ pc[r] \notin {"kill_list", "kill_each"}

DeclaredLeft == storage \cap DeclaredTree

\* ------------------------------------------------------------------- claims
\* C1: in every execution of the factory-reset handler the local wipe and the
\* backup wipe are both issued, in that order, before killAllMoltbotProcesses
\* is issued: termination is never issued while a wipe has not been attempted.
C1_WipesBeforeTerminate ==
    \A r \in Reqs : IsReset(r) =>
        \A t \in TerminateAt(r) :
            \E l \in WipeLocalAt(r), b \in WipeBackupAt(r) : l < b /\ b < t

\* C2: in every execution of the factory-reset handler each of the three phases
\* is attempted exactly once, whichever of them fail.
C2_EveryPhaseOnce ==
    \A r \in Reqs : (IsReset(r) /\ pc[r] = "done") =>
        /\ Cardinality(WipeLocalAt(r)) = 1
        /\ Cardinality(WipeBackupAt(r)) = 1
        /\ Cardinality(TerminateAt(r)) = 1

\* C3: when exactly one reset phase fails and the other two succeed, the
\* handler still responds with overall status ok.
C3_OneFailureStillOk ==
    \A r \in Reqs :
        (/\ IsReset(r)
         /\ pc[r] = "done"
         /\ \/ WipeLocalFailed(r) /\ Succeeded(r, "startProcess", 2) /\ TerminateSucceeded(r)
            \/ Succeeded(r, "startProcess", 1) /\ WipeBackupFailed(r) /\ TerminateSucceeded(r)
            \/ Succeeded(r, "startProcess", 1) /\ Succeeded(r, "startProcess", 2)
                    /\ TerminateFailed(r))
            => resp[r].body.status = "ok"

\* C4: when the wipe-first handler is about to issue the terminate call, with
\* both wipes started without failure, the declared paths of both targets have
\* actually been removed.
C4_WipedBeforeTerminate ==
    \A r \in Reqs :
        (/\ kind[r] = "resetWipeFirst"
         /\ pc[r] = "kill_list"
         /\ Succeeded(r, "startProcess", 1)
         /\ Succeeded(r, "startProcess", 2))
            => DeclaredLeft = {}

\* The port probes request r has issued.
Probes(r) == {i \in DOMAIN calls[r] : calls[r][i].op = "waitForPort"}

IsStatus(r) == kind[r] = "status"

\* C5: whenever the process lookup of a status request finds no gateway
\* process, the handler responds not_running with ok=false and issues no
\* waitForPort in that request.
C5_AbsentIsNotRunning ==
    \A r \in Reqs :
        (IsStatus(r) /\ Succeeded(r, "listProcesses", 0) /\ found[r] = 0) =>
            /\ pc[r] = "done"
            /\ resp[r].body = [ok |-> FALSE, status |-> "not_running"]
            /\ Probes(r) = {}

\* C5 happens: a lookup over a sandbox without a gateway has been answered.
C5_Witness ==
    \E r \in Reqs :
        /\ IsStatus(r) /\ pc[r] = "done"
        /\ Succeeded(r, "listProcesses", 0) /\ found[r] = 0
        /\ GatewayPids(procs) = {}

\* C6: whenever a status request has found a gateway process and its port
\* probe fails (a timeout or any other failure), the handler responds
\* not_responding with ok=false and that process's id: never an exception,
\* never status error or not_running.
C6_ProbeFailureIsNotResponding ==
    \A r \in Reqs :
        (IsStatus(r) /\ \E i \in Probes(r) : ~calls[r][i].ok) =>
            /\ pc[r] = "done"
            /\ found[r] # 0
            /\ \A i \in Probes(r) : calls[r][i].what = found[r]
            /\ resp[r].code = HttpOk
            /\ resp[r].body =
                [ok |-> FALSE, status |-> "not_responding", processId |-> found[r]]

\* C6 happens: the probed gateway is alive and its port is closed (a timeout).
C6_Witness ==
    \E r \in Reqs :
        /\ IsStatus(r) /\ pc[r] = "done"
        /\ \E i \in Probes(r) : ~calls[r][i].ok
        /\ found[r] \in GatewayPids(procs)
        /\ ~PortOpen(found[r], ProbePort)

\* C7: when the process listing fails during a status request, the handler
\* responds with status error carrying the failure's message, issues no port
\* probe and lists only once in that request.
C7_ListFailureIsError ==
    \A r \in Reqs :
        (IsStatus(r) /\ Failed(r, "listProcesses", 0)) =>
            /\ pc[r] = "done"
            /\ Len(calls[r]) = 1
            /\ Probes(r) = {}
            /\ resp[r].body.ok = FALSE
            /\ resp[r].body.status = "error"
            /\ calls[r][1].err.isError => resp[r].body.error = calls[r][1].err.message
            /\ ~calls[r][1].err.isError => resp[r].body.error = "Unknown error"

\* C7 happens: the listing failed with an Error while a gateway was running.
C7_Witness ==
    \E r \in Reqs :
        /\ IsStatus(r) /\ pc[r] = "done"
        /\ Failed(r, "listProcesses", 0)
        /\ calls[r][1].err.isError
        /\ GatewayPids(procs) # {}

RmPids == {p \in DOMAIN procs : procs[p].cmd.prog = "rm"}

\* A reset request that is under way.
Resetting(r) == IsReset(r) /\ pc[r] \notin {"idle", "done"}

\* What a successful reset run leaves: the ok response, no gateway process and,
\* once the rm processes have run, none of the declared paths.
CleanReset(r) ==
    /\ resp[r] = [code |-> HttpOk, body |-> ResetOkBody]
    /\ GatewayPids(procs) = {}
    /\ RmPids = {} => DeclaredLeft = {}

\* The steps of the reset handler that request r runs.
ResetOf(r) ==
    \/ ResetWipeLocal(r) \/ ResetWipeBackup(r)
    \/ Reset0WipeLocal(r) \/ Reset0WipeBackup(r)
    \/ KillAllList(r) \/ KillAllKill(r)

\* A bound on the steps a reset request still has to take.
StepsLeft(r) ==
    LET wipeFirst == kind[r] = "resetWipeFirst" IN
    CASE pc[r] = "wipe_local" -> IF wipeFirst THEN MaxProcs + 3 ELSE 2
      [] pc[r] = "wipe_backup" -> IF wipeFirst THEN MaxProcs + 2 ELSE 1
      [] pc[r] = "kill_list" -> IF wipeFirst THEN MaxProcs + 1 ELSE MaxProcs + 3
      [] pc[r] = "kill_each" -> Cardinality(pending[r]) + (IF wipeFirst THEN 0 ELSE 2)
      [] OTHER -> 0

\* C8: the factory reset is safe to repeat.  From any starting state (nothing
\* exists, everything exists, what a reset that failed part-way has left) a
\* reset run terminates: it can always take its next step and every step
\* brings it nearer to its response.  And a run in which no sandbox call
\* fails answers ok and leaves what a single successful run leaves: the
\* declared paths absent and no gateway process.
C8_RepeatableReset ==
    /\ [](\A r \in Reqs : Resetting(r) => ENABLED ResetOf(r))
    /\ [][\A r \in Reqs : (Resetting(r) /\ ResetOf(r)) => StepsLeft(r)' < StepsLeft(r)]_vars
    /\ [](\A r \in Reqs : (IsReset(r) /\ pc[r] = "done" /\ NoFailure(r)) => CleanReset(r))

\* C8 happens: a reset without failure has finished after one that failed, on
\* a sandbox that started with something to wipe, and its rm processes have run.
C8_Witness ==
    \E r \in Reqs :
        /\ IsReset(r) /\ pc[r] = "done" /\ NoFailure(r)
        /\ prior = "failed"
        /\ RmPids = {}
        /\ lastRun.removed

\* Whether something an rm process p is to remove exists.
HasTargets(p) ==
    \E q \in storage : Covered(procs[p].cmd.flags, procs[p].cmd.args, q)

\* C9: each wipe is idempotent.  Run on a target whose declared paths are
\* already absent it succeeds and changes nothing; and whatever it ran on, a
\* second run right after it would succeed too and change nothing more.
\* A missing path is never an error.
C9_WipeIdempotent ==
    [][\A p \in DOMAIN procs \ DOMAIN procs' : ProcessRun(p) =>
        LET c == procs[p].cmd IN
            /\ lastRun'.exit = 0
            /\ ~HasTargets(p) => storage' = storage
            /\ RmExit(c.flags, c.args, storage') = 0
            /\ RmEffect(c.flags, c.args, storage') = storage']_vars

\* C9 happens: an rm has run on a target that had nothing left to remove.
C9_Witness ==
    /\ lastRun.exit = 0
    /\ ~lastRun.removed
    /\ \E r \in Reqs : IsReset(r) /\ Succeeded(r, "startProcess", 1)

\* The paths the two wipes are to remove, by name.
NamedPaths ==
    { <<"root", ".openclaw">>, <<"root", ".clawdbot">>,
      <<"data", "moltbot", "openclaw">>, <<"data", "moltbot", "clawdbot">>,
      <<"data", "moltbot", ".last-sync">>, <<"data", "moltbot", "openclaw.json">>,
      <<"data", "moltbot", "clawdbot.json">> }

\* C10: whatever a step of a reset run (or of the rm processes it started)
\* removes from the storage is one of the named paths or lies below one; every
\* other path is left as it was, and nothing is created.
C10_OnlyNamedPathsRemoved ==
    [][/\ storage' \subseteq storage
       /\ \A q \in storage \ storage' : \E a \in NamedPaths : IsPrefix(a, q)]_vars

\* C10 happens: a wipe has removed something, the named paths are gone and all
\* the other paths are still there.
C10_Witness ==
    /\ lastRun.removed
    /\ RmPids = {}
    /\ storage = OtherPaths

IsDiagnose(r) == kind[r] = "diagnose"

\* The snapshot a diagnose request has returned.
Snapshot(r) == IsDiagnose(r) /\ pc[r] = "done" /\ resp[r].code = HttpOk

\* Another value the secret could have had: no state of the model holds it.
OtherSecret == "tokB"

\* A value, a line and an output with the other secret in the secret's place.
Renamed(v) == IF v = Secret THEN OtherSecret ELSE v
RenamedLine(l) == [i \in DOMAIN l |-> Renamed(l[i])]
RenamedOut(out) == {RenamedLine(l) : l \in out}

\* What the handler returns in the environment that differs only in the
\* secret's value: the same reads give the same outputs with the other value
\* wherever the secret's value stood.
TwinBody(r) ==
    DiagnoseBody([i \in DOMAIN outs[r] |-> RenamedOut(outs[r][i])], Renamed(cenv[r]))

\* C11: the diagnostics snapshot never holds the value of the gateway token,
\* only whether it is set: with the token set, the snapshot returned is the one
\* that is returned in the environment that differs only in the token's value.
C11_SnapshotHidesToken ==
    \A r \in Reqs : (Snapshot(r) /\ cenv[r] # NoToken) => resp[r].body = TwinBody(r)

DiagFields == <<"config", "env", "lsR2", "lsLocal">>

\* The i-th read of a diagnose request was attempted; it gave its output.
ReadAttempted(r, i) == At(r, "startProcess", 2 + i) # {}
ReadSucceeded(r, i) == Succeeded(r, "startProcess", 2 + i) /\ Succeeded(r, "getLogs", 2 + i)

\* C12: the four reads of the diagnose handler are independent: whichever of
\* them fails, every read has been attempted when the handler responds, and
\* the output of every read that succeeded is in the response.
C12_ReadsIndependent ==
    \A r \in Reqs : (IsDiagnose(r) /\ pc[r] = "done") =>
        \A i \in DOMAIN DiagCmds :
            /\ ReadAttempted(r, i)
            /\ ReadSucceeded(r, i) =>
                /\ DiagFields[i] \in DOMAIN resp[r].body
                /\ i \in DOMAIN outs[r]
                /\ resp[r].body[DiagFields[i]] = outs[r][i]

\* The steps of the diagnose handler that request r runs.
DiagnoseOf(r) == DiagnoseStart(r) \/ DiagnoseLogs(r)

Started == DOMAIN procs' \ DOMAIN procs

\* C13: the diagnose handler is read-only.  No step of it changes the storage
\* or the set of gateway processes, the processes it starts only read, and
\* these change nothing when they run.
C13_DiagnoseReadOnly ==
    /\ [][\A r \in Reqs : DiagnoseOf(r) =>
            /\ storage' = storage
            /\ GatewayPids(procs') = GatewayPids(procs)
            /\ \A p \in Started : procs'[p].cmd.prog \in ReadProgs]_vars
    /\ [][\A p \in Pids : ReadRun(p) =>
            /\ storage' = storage
            /\ GatewayPids(procs') = GatewayPids(procs)]_vars

\* C13 happens: a snapshot has been returned from a sandbox with a gateway
\* process and initialised storage, all four reads having given their listing.
C13_Witness ==
    \E r \in Reqs :
        /\ Snapshot(r)
        /\ GatewayPids(procs) # {}
        /\ DeclaredLeft = DeclaredTree
        /\ \A i \in DOMAIN DiagCmds : outs[r][i] # {}

NotRunning == [ok |-> FALSE, status |-> "not_running"]
Running(p) == [ok |-> TRUE, status |-> "running", processId |-> p]
NotResponding(p) == [ok |-> FALSE, status |-> "not_responding", processId |-> p]

\* C14: end to end.  A status request made after a reset has answered ok (no
\* sandbox call failing, no gateway started meanwhile) answers not_running; and
\* when a gateway process has then been started and its port is open, the next
\* status request answers running with that process's id, as long as that
\* process runs: the answer is derived from the sandbox anew on each request.
C14_EndToEnd ==
    \A r \in Reqs :
        (e2e.req = r /\ pc[r] = "done" /\ NoFailure(r)) =>
            /\ e2e.at = "asked" => resp[r] = [code |-> HttpOk, body |-> NotRunning]
            /\ (e2e.at = "probing" /\ e2e.pid \in GatewayPids(procs)) =>
                    resp[r] = [code |-> HttpOk, body |-> Running(e2e.pid)]

\* C14 happens: the whole sequence has been gone through, the last status
\* request has answered running with the id of the process started.
C14_Witness ==
    /\ e2e.at = "probing"
    /\ pc[e2e.req] = "done"
    /\ resp[e2e.req].body = Running(e2e.pid)

\* The steps of each handler that request r runs.
StatusOf(r) == StatusFind(r) \/ StatusProbe(r)
HandlerOf(r) == StatusOf(r) \/ ResetOf(r) \/ DiagnoseOf(r)

InFlight(r) == pc[r] \notin {"idle", "done"}

\* A structured response of the handler that request r ran.
Structured(r) ==
    LET b == resp[r].body c == resp[r].code IN
    CASE IsStatus(r) ->
            /\ c = HttpOk
            /\ {"ok", "status"} \subseteq DOMAIN b
      [] IsReset(r) ->
            /\ c \in {HttpOk, HttpError}
            /\ DOMAIN b = {"status", "message"}
            /\ b.status = (IF c = HttpOk THEN "ok" ELSE "error")
      [] IsDiagnose(r) ->
            \/ c = HttpOk /\ DOMAIN b = {"config", "env", "lsR2", "lsLocal", "envConfig"}
            \/ c = HttpError /\ DOMAIN b = {"error"}
      [] OTHER -> FALSE

\* C15: whatever sandbox calls fail, each of the three handlers produces
\* exactly one structured response and no exception leaves it: a request
\* under way has not responded and can take its next step, a request that has
\* ended has a structured response, and that response is not changed.
C15_OneStructuredResponse ==
    /\ [](\A r \in Reqs : InFlight(r) => resp[r] = NoResp /\ ENABLED HandlerOf(r))
    /\ [](\A r \in Reqs : pc[r] = "done" => Structured(r))
    /\ [][\A r \in Reqs : (pc[r] = "done" /\ pc'[r] = "done") => resp'[r] = resp[r]]_vars

\* C15 happens: a diagnose request has ended in its catch, after a read had
\* already given its output.
C15_Witness ==
    \E r \in Reqs :
        /\ IsDiagnose(r) /\ pc[r] = "done"
        /\ resp[r].code = HttpError
        /\ Len(outs[r]) > 0
        /\ ~NoFailure(r)

\* C16: a status request on a gateway process whose port does not open does
\* not hang.  Its probe never waits beyond the 5000 ms it is given, it can
\* always end, it does end, and ending with the port closed the handler
\* responds not_responding.
C16_ProbeBounded ==
    /\ [](\A r \in Reqs : pc[r] = "status_probe" =>
            waited[r] <= ProbeTimeout /\ ENABLED StatusProbe(r))
    /\ [][\A r \in Reqs : (StatusProbe(r) /\ ~PortOpen(found[r], ProbePort)) =>
            /\ pc'[r] = "done"
            /\ resp'[r] = [code |-> HttpOk, body |-> NotResponding(found[r])]]_vars
    /\ \A r \in Reqs : (pc[r] = "status_probe") ~> (pc[r] = "done")

\* C16 happens: the probe of a live gateway whose port is closed has waited
\* all the time it could and the handler has responded not_responding.
C16_Witness ==
    \E r \in Reqs :
        /\ IsStatus(r) /\ pc[r] = "done"
        /\ waited[r] + TickMs > ProbeTimeout
        /\ found[r] \in GatewayPids(procs)
        /\ ~PortOpen(found[r], ProbePort)
        /\ resp[r].body = NotResponding(found[r])

\* C17: no step of a status request starts or ends a process or touches the
\* storage, whatever the registry holds (no gateway, one, duplicates).
C17_StatusTouchesNothing ==
    [][\A r \in Reqs : StatusOf(r) => procs' = procs /\ storage' = storage]_vars

\* C17 happens: a status request has been answered over a registry with
\* duplicate gateway processes and an initialised storage.
C17_Witness ==
    \E r \in Reqs :
        /\ IsStatus(r) /\ pc[r] = "done"
        /\ Cardinality(GatewayPids(procs)) > 1
        /\ DeclaredLeft = DeclaredTree
        /\ resp[r].body.status = "running"

\* C18: two reset requests need no mutual exclusion.  However their sandbox
\* calls interleave, when none of the calls of either has failed both respond
\* ok, no gateway process is left and, once the rm processes have run, none of
\* the declared paths: what one reset run alone leaves.
C18_ConcurrentResets ==
    \A r \in Slots, q \in Slots :
        (/\ r # q
         /\ IsReset(r) /\ pc[r] = "done" /\ NoFailure(r)
         /\ IsReset(q) /\ pc[q] = "done" /\ NoFailure(q))
            => CleanReset(r) /\ CleanReset(q)

\* C18 happens: two wipe-first requests that ran at the same time have both
\* ended without a failure, and all the rm processes they started have run
\* (the last of them on a target the other request's had already wiped).
C18_Witness ==
    \E r \in Slots, q \in Slots :
        /\ r # q
        /\ met[r] /\ met[q]
        /\ kind[r] = "resetWipeFirst" /\ pc[r] = "done" /\ NoFailure(r)
        /\ kind[q] = "resetWipeFirst" /\ pc[q] = "done" /\ NoFailure(q)
        /\ RmPids = {}
        /\ lastRun.exit = 0 /\ ~lastRun.removed

\* C19: every status response is well-formed: status is one of the four, ok is
\* true exactly when status is running, processId is there exactly when status
\* is running or not_responding, error exactly when status is error.
C19_StatusWellFormed ==
    \A r \in Reqs : (IsStatus(r) /\ pc[r] = "done") =>
        LET b == resp[r].body IN
            /\ {"ok", "status"} \subseteq DOMAIN b
            /\ b.status \in {"running", "not_responding", "not_running", "error"}
            /\ b.ok <=> b.status = "running"
            /\ "processId" \in DOMAIN b <=> b.status \in {"running", "not_responding"}
            /\ "error" \in DOMAIN b <=> b.status = "error"

\* C19 happens: a status request has answered error.
C19_Witness ==
    \E r \in Reqs :
        /\ IsStatus(r) /\ pc[r] = "done"
        /\ resp[r].body.status = "error"
        /\ resp[r].body.error = "Unknown error"

\* C20: the response of the wipe-first handler is decided by the terminate
\* phase alone: ok (200) exactly when killAllMoltbotProcesses returned without
\* throwing, error (500) otherwise, whether or not a wipe failed.
C20_TerminateDecides ==
    \A r \in Reqs : (kind[r] = "resetWipeFirst" /\ pc[r] = "done") =>
        /\ TerminateAt(r) # {}
        /\ resp[r] = [code |-> HttpOk, body |-> ResetOkBody] <=> killErr[r] = NoError
        /\ killErr[r] # NoError =>
                resp[r] = [code |-> HttpError,
                           body |-> [status |-> "error", message |-> ErrMessage(killErr[r])]]

\* C20 happens: both wipes failed, the terminate phase did not, the response
\* is ok and declared paths are still there.
C20_Witness ==
    \E r \in Reqs :
        /\ kind[r] = "resetWipeFirst" /\ pc[r] = "done"
        /\ WipeLocalFailed(r) /\ WipeBackupFailed(r)
        /\ resp[r].body.status = "ok"
        /\ RmPids = {}
        /\ DeclaredLeft = DeclaredTree

====
